---- MODULE Spec2Model ----
(***************************************************************************)
(* A model of XlsxUtil (src/src/lib/xlsx-util.js): the column codec, the   *)
(* coordinate parser, the cell extractor, the sheet geometry resolver, the *)
(* rich-text flattener and the empty grid builder.                         *)
(*                                                                         *)
(* A JavaScript string is modelled as a sequence of one-character strings, *)
(* so that trimming, splitting, indexing and concatenation are computed    *)
(* and not assumed.  A JavaScript array is a sequence; where the identity  *)
(* of an array matters (createEmptyCells) it is an address into `heap`.    *)
(***************************************************************************)
EXTENDS Integers, Sequences, FiniteSets

VARIABLES
  pc,     \* "call": the arguments are chosen; "done": the function returned;
          \* "written": the caller stored a value into the returned matrix
  op,     \* the XlsxUtil method of this run
  arg,    \* its arguments
  ret,    \* its return value (Pending before the call)
  heap,   \* address -> row array, the arrays createEmptyCells allocated
  wr      \* the caller's write into the matrix: <<i, j, v>>, or <<>>

vars == <<pc, op, arg, ret, heap, wr>>

(***************************************************************************)
(* Bounds of the checked input sets.                                       *)
(***************************************************************************)
MaxColLen == 2     \* column texts over the whole alphabet A-Z
MaxMixLen == 3     \* column texts over MixChars
MaxRefLen == 4     \* reference texts over RefChars
MaxRows   == 2     \* row nodes handed to getCells
MaxCells  == 3     \* cells handed to getSheetSize
MaxNodes  == 3     \* text nodes handed to parseT
MaxRuns   == 2     \* run nodes handed to parseR
MaxDim    == 3     \* rows and cols handed to createEmptyCells

(***************************************************************************)
(* JavaScript values that are not numbers, strings or arrays.              *)
(***************************************************************************)
Pending   == "pending"
Undefined == "undefined"
NaN       == "NaN"

\* All sequences over S of length 0..n.
RECURSIVE SeqsUpTo(_, _)
SeqsUpTo(S, n) ==
  IF n = 0 THEN {<<>>}
  ELSE LET shorter == SeqsUpTo(S, n - 1)
       IN  shorter \cup {Append(s, x) : s \in {t \in shorter : Len(t) = n - 1}, x \in S}

(***************************************************************************)
(* Characters.                                                             *)
(***************************************************************************)
WhiteSpace == {" ", "\t", "\n", "\r"}
Digits     == {"0", "1", "2", "3", "4", "5", "6", "7", "8", "9"}
DigitChars == <<"0", "1", "2", "3", "4", "5", "6", "7", "8", "9">>

\* Array.prototype.indexOf: the 0-based index of the first x in arr, or -1.
RECURSIVE IndexFrom(_, _, _)
IndexFrom(arr, x, k) ==
  IF k > Len(arr) THEN -1
  ELSE IF arr[k] = x THEN k - 1
  ELSE IndexFrom(arr, x, k + 1)

IndexOf(arr, x) == IndexFrom(arr, x, 1)

\* String.prototype.trim.
RECURSIVE TrimLeft(_)
TrimLeft(s) ==
  IF s # <<>> /\ Head(s) \in WhiteSpace THEN TrimLeft(Tail(s)) ELSE s

RECURSIVE TrimRight(_)
TrimRight(s) ==
  IF s # <<>> /\ s[Len(s)] \in WhiteSpace
  THEN TrimRight(SubSeq(s, 1, Len(s) - 1)) ELSE s

Trim(s) == TrimRight(TrimLeft(s))

(***************************************************************************)
(* numOfColumn                                                             *)
(***************************************************************************)
letters ==
  <<"", "A", "B", "C", "D", "E", "F", "G", "H", "I", "J", "K", "L", "M",
    "N", "O", "P", "Q", "R", "S", "T", "U", "V", "W", "X", "Y", "Z">>

\* A column codec that maps a character outside A-Z to the digit 0.
RECURSIVE NumLoopZero(_, _, _)
NumLoopZero(col, i, num) ==
  IF i < Len(col)
  THEN LET k == IndexOf(letters, col[i + 1])
       IN  NumLoopZero(col, i + 1, num * 26 + (IF k < 0 THEN 0 ELSE k))
  ELSE num

\* A column codec that is plain base 26 with A = 0.
RECURSIVE NumLoopBase26(_, _, _)
NumLoopBase26(col, i, num) ==
  IF i < Len(col)
  THEN NumLoopBase26(col, i + 1, num * 26 + IndexOf(letters, col[i + 1]) - 1)
  ELSE num

\* for( let i = 0, max = col.length; i < max; ++i ) { num *= 26; num += letters.indexOf( col[ i ] ); }
RECURSIVE NumLoop(_, _, _)
NumLoop(col, i, num) ==
  IF i < Len(col)
  THEN NumLoop(col, i + 1, num * 26 + IndexOf(letters, col[i + 1]))
  ELSE num

\* text.trim().split( '' ) is the sequence of the trimmed text's characters.
numOfColumn(text) == NumLoop(Trim(text), 0, 0)

(***************************************************************************)
(* getPosition                                                             *)
(***************************************************************************)
\* The last index of the run of digits that starts at q.
RECURSIVE DigitRunEnd(_, _)
DigitRunEnd(text, q) ==
  IF q < Len(text) /\ text[q + 1] \in Digits THEN DigitRunEnd(text, q + 1) ELSE q

\* text.split( /([0-9]+)/ ): the text is cut at every maximal run of digits
\* and, the pattern being a capture group, each run is kept between the
\* pieces; the piece after the last run (possibly empty) ends the array.
\* q scans the text, p is where the current piece starts.
RECURSIVE SplitLoop(_, _, _, _)
SplitLoop(text, q, p, out) ==
  IF q > Len(text) THEN Append(out, SubSeq(text, p, Len(text)))
  ELSE IF text[q] \in Digits
  THEN LET e == DigitRunEnd(text, q)
       IN  SplitLoop(text, e + 1, e + 1,
                     out \o <<SubSeq(text, p, q - 1), SubSeq(text, q, e)>>)
  ELSE SplitLoop(text, q + 1, p, out)

SplitDigits(text) == SplitLoop(text, 1, 1, <<>>)

\* The value of a sequence of decimal digits, left to right.
RECURSIVE DecLoop(_, _, _)
DecLoop(ds, i, n) ==
  IF i < Len(ds) THEN DecLoop(ds, i + 1, n * 10 + IndexOf(DigitChars, ds[i + 1]))
  ELSE n

\* The longest prefix of s made of digits.
RECURSIVE DigitPrefix(_)
DigitPrefix(s) ==
  IF s # <<>> /\ Head(s) \in Digits THEN <<Head(s)>> \o DigitPrefix(Tail(s)) ELSE <<>>

\* parseInt( s, 10 ): leading white space and one sign are skipped, the
\* digits that follow are read, NaN when there is none.
ParseInt(s) ==
  LET t    == TrimLeft(s)
      sign == t # <<>> /\ Head(t) \in {"+", "-"}
      ds   == DigitPrefix(IF sign THEN Tail(t) ELSE t)
  IN  IF ds = <<>> THEN NaN
      ELSE IF sign /\ Head(t) = "-" THEN 0 - DecLoop(ds, 0, 0)
      ELSE DecLoop(ds, 0, 0)

\* A parser that takes the column from the whole text.
getPositionWholeText(text) ==
  LET units == SplitDigits(text)
  IN  IF Len(units) < 2 THEN [row |-> 0, col |-> 0]
      ELSE [row |-> ParseInt(units[2]), col |-> numOfColumn(text)]

\* units[ 0 ] and units[ 1 ] of the code are units[1] and units[2] here.
getPosition(text) ==
  LET units == SplitDigits(text)
  IN  IF Len(units) < 2 THEN [row |-> 0, col |-> 0]
      ELSE [row |-> ParseInt(units[2]), col |-> numOfColumn(units[1])]

(***************************************************************************)
(* JavaScript objects are records; a property the object does not carry is *)
(* a field the record does not have.  `$` (the attributes of an XML node)  *)
(* is the field attrs, `_` (the text of an XML node) the field underscore. *)
(***************************************************************************)
Has(obj, f) == f \in DOMAIN obj

(***************************************************************************)
(* getCells                                                                *)
(***************************************************************************)
\* ( cell.$.t ? cell.$.t : '' ): an absent or empty type attribute is falsy.
CellType(cell) ==
  IF Has(cell.attrs, "t") /\ cell.attrs.t # "" THEN cell.attrs.t ELSE ""

\* ( cell.v && 0 < cell.v.length ? cell.v[ 0 ] : '' )
CellValue(cell) ==
  IF Has(cell, "v") /\ 0 < Len(cell.v) THEN cell.v[1] ELSE ""

\* The body of row.c.forEach: one Cell pushed per cell node.
MakeCell(cell) ==
  LET position == getPosition(cell.attrs.r)
  IN  [row   |-> position.row,
       col   |-> position.col,
       type  |-> CellType(cell),
       value |-> CellValue(cell)]

RECURSIVE CellLoop(_, _, _)
CellLoop(c, k, cells) ==
  IF k < Len(c) THEN CellLoop(c, k + 1, Append(cells, MakeCell(c[k + 1]))) ELSE cells

\* The filter of getCells: ( row.c && 0 < row.c.length ).
RowHasCells(row) == Has(row, "c") /\ 0 < Len(row.c)

\* A cell extractor that pushes each row's cells in front of the earlier ones.
RECURSIVE RowLoopPrepend(_, _, _)
RowLoopPrepend(rows, k, cells) ==
  IF k < Len(rows)
  THEN RowLoopPrepend(rows, k + 1,
         IF RowHasCells(rows[k + 1])
         THEN CellLoop(rows[k + 1].c, 0, <<>>) \o cells ELSE cells)
  ELSE cells

\* rows.filter( ... ).forEach( ( row ) => { row.c.forEach( ... ) } )
RECURSIVE RowLoop(_, _, _)
RowLoop(rows, k, cells) ==
  IF k < Len(rows)
  THEN RowLoop(rows, k + 1,
         IF RowHasCells(rows[k + 1])
         THEN CellLoop(rows[k + 1].c, 0, cells) ELSE cells)
  ELSE cells

getCells(rows) == RowLoop(rows, 0, <<>>)

(***************************************************************************)
(* getSheetSize                                                            *)
(***************************************************************************)
\* null, the sheet of a worksheet that could not be read.
Null == [null |-> TRUE]

Truthy(obj) == ~Has(obj, "null")

\* String.prototype.split with a one-character separator.
RECURSIVE SplitOnLoop(_, _, _, _, _)
SplitOnLoop(s, sep, q, p, out) ==
  IF q > Len(s) THEN Append(out, SubSeq(s, p, Len(s)))
  ELSE IF s[q] = sep
  THEN SplitOnLoop(s, sep, q + 1, q + 1, Append(out, SubSeq(s, p, q - 1)))
  ELSE SplitOnLoop(s, sep, q + 1, p, out)

SplitOn(s, sep) == SplitOnLoop(s, sep, 1, 1, <<>>)

\* A sort whose comparator is ( a, b ) => b - a.
RECURSIVE InsertDescend(_, _)
InsertDescend(sorted, x) ==
  IF sorted = <<>> THEN <<x>>
  ELSE IF Head(sorted) - x < 0 THEN <<x>> \o sorted
  ELSE <<Head(sorted)>> \o InsertDescend(Tail(sorted), x)

\* Array.prototype.sort with ( a, b ) => a - b: ascending numeric order.
RECURSIVE InsertAscend(_, _)
InsertAscend(sorted, x) ==
  IF sorted = <<>> THEN <<x>>
  ELSE IF x - Head(sorted) < 0 THEN <<x>> \o sorted
  ELSE <<Head(sorted)>> \o InsertAscend(Tail(sorted), x)

RECURSIVE SortAscend(_)
SortAscend(s) ==
  IF s = <<>> THEN <<>> ELSE InsertAscend(SortAscend(SubSeq(s, 1, Len(s) - 1)), s[Len(s)])

\* arr[ k ] with a 0-based k: undefined outside the array.
At(arr, k) == IF 0 <= k /\ k < Len(arr) THEN arr[k + 1] ELSE Undefined

\* sheet && sheet.worksheet && sheet.worksheet.dimension && 0 <= sheet.worksheet.dimension.length
HasDimension(sheet) ==
  /\ Truthy(sheet)
  /\ Has(sheet, "worksheet")
  /\ Has(sheet.worksheet, "dimension")
  /\ 0 <= Len(sheet.worksheet.dimension)

\* A fallback that takes the first and the last cell as they come.
ScanCellsUnsorted(cells) ==
  LET rows == [k \in 1..Len(cells) |-> cells[k].row]
      cols == [k \in 1..Len(cells) |-> cells[k].col]
  IN  [row |-> [min |-> At(rows, 0), max |-> At(rows, Len(rows) - 1)],
       col |-> [min |-> At(cols, 0), max |-> At(cols, Len(cols) - 1)]]

\* The fallback of getSheetSize: the cells' rows and cols, each sorted.
ScanCells(cells) ==
  LET rows == SortAscend([k \in 1..Len(cells) |-> cells[k].row])
      cols == SortAscend([k \in 1..Len(cells) |-> cells[k].col])
  IN  [row |-> [min |-> At(rows, 0), max |-> At(rows, Len(rows) - 1)],
       col |-> [min |-> At(cols, 0), max |-> At(cols, Len(cols) - 1)]]

\* A resolver that scans the cells first and reads the declaration only
\* when there is no cell.
getSheetSizeCellsFirst(sheet, cells) ==
  LET range == IF HasDimension(sheet)
               THEN SplitOn(sheet.worksheet.dimension[1].attrs.ref, ":")
               ELSE <<>>
  IN  IF Len(range) = 2 /\ cells = <<>>
      THEN LET min == getPosition(range[1])
               max == getPosition(range[2])
           IN  [row |-> [min |-> min.row, max |-> max.row],
                col |-> [min |-> min.col, max |-> max.col]]
      ELSE ScanCells(cells)

getSheetSize(sheet, cells) ==
  LET range == IF HasDimension(sheet)
               THEN SplitOn(sheet.worksheet.dimension[1].attrs.ref, ":")
               ELSE <<>>
  IN  IF Len(range) = 2
      THEN LET min == getPosition(range[1])
               max == getPosition(range[2])
           IN  [row |-> [min |-> min.row, max |-> max.row],
                col |-> [min |-> min.col, max |-> max.col]]
      ELSE ScanCells(cells)

(***************************************************************************)
(* parseT and parseR                                                       *)
(***************************************************************************)
\* obj._ && typeof obj._ === 'string': a non-empty string payload.
HasText(obj) ==
  /\ Has(obj, "underscore")
  /\ obj.underscore.typeof = "string"
  /\ obj.underscore.str # <<>>

\* A text step that trims what it appends.
TextStepTrim(value, obj) ==
  IF obj.typeof = "string" THEN value \o Trim(obj.str)
  ELSE IF obj.typeof = "object" /\ HasText(obj) THEN value \o Trim(obj.underscore.str)
  ELSE value

\* The body of t.forEach: switch( typeof obj ).
TextStep(value, obj) ==
  IF obj.typeof = "string" THEN value \o obj.str
  ELSE IF obj.typeof = "object" /\ HasText(obj) THEN value \o obj.underscore.str
  ELSE value

RECURSIVE TextLoop(_, _, _)
TextLoop(t, k, value) ==
  IF k < Len(t) THEN TextLoop(t, k + 1, TextStep(value, t[k + 1])) ELSE value

parseT(t) == TextLoop(t, 0, <<>>)

\* The body of r.forEach: if( obj.t ) { value += XlsxUtil.parseT( obj.t ); }
RunStep(value, obj) ==
  IF Has(obj, "t") THEN value \o parseT(obj.t) ELSE value

RECURSIVE RunLoop(_, _, _)
RunLoop(r, k, value) ==
  IF k < Len(r) THEN RunLoop(r, k + 1, RunStep(value, r[k + 1])) ELSE value

parseR(r) == RunLoop(r, 0, <<>>)

(***************************************************************************)
(* createEmptyCells                                                        *)
(***************************************************************************)
\* for( let j = 0; j < cols; ++j ) { row.push( '' ); }
RECURSIVE FillRow(_, _, _)
FillRow(cols, j, row) ==
  IF j < cols THEN FillRow(cols, j + 1, Append(row, "")) ELSE row

\* A builder that allocates one row and pushes it rows times.
RECURSIVE CreateLoopShared(_, _, _, _, _)
CreateLoopShared(rows, cols, i, arr, h) ==
  IF i < rows
  THEN CreateLoopShared(rows, cols, i + 1, Append(arr, 1),
                        IF h = <<>> THEN <<FillRow(cols, 0, <<>>)>> ELSE h)
  ELSE [arr |-> arr, heap |-> h]

\* The outer loop: `const row = []` allocates a new array in every round,
\* at the next free address of the heap h.
RECURSIVE CreateLoop(_, _, _, _, _)
CreateLoop(rows, cols, i, arr, h) ==
  IF i < rows
  THEN CreateLoop(rows, cols, i + 1, Append(arr, Len(h) + 1),
                  Append(h, FillRow(cols, 0, <<>>)))
  ELSE [arr |-> arr, heap |-> h]

createEmptyCells(rows, cols) == CreateLoop(rows, cols, 0, <<>>, <<>>)

(***************************************************************************)
(* The checked inputs.                                                     *)
(***************************************************************************)
Alphabet ==
  <<"A", "B", "C", "D", "E", "F", "G", "H", "I", "J", "K", "L", "M",
    "N", "O", "P", "Q", "R", "S", "T", "U", "V", "W", "X", "Y", "Z">>

Upper == {Alphabet[k] : k \in 1..Len(Alphabet)}

\* Column texts: every text over A-Z, and texts that mix letters with a
\* lower-case letter, a digit, '$' and a space.
ColumnTexts == SeqsUpTo(Upper, MaxColLen)
MixChars    == {"A", "B", "Z", "a", "1", "$", " "}
MixTexts    == SeqsUpTo(MixChars, MaxMixLen)

\* Reference texts: well-formed ("A1", "C45", "AZ01") and not ("", "1A", "a1").
RefChars == {"A", "C", "Z", "a", "0", "1", "4", "5"}
RefTexts == SeqsUpTo(RefChars, MaxRefLen)

RefA1  == <<"A", "1">>
RefB2  == <<"B", "2">>
RefD4  == <<"D", "4">>
RefC45 == <<"C", "4", "5">>

\* Cell nodes as xml2js builds them from <c r=".." t=".."><v>..</v></c>:
\* with and without a type attribute, with no, an empty, one and two value
\* nodes, with a well-formed and with a malformed reference.
CellNodes ==
  { [attrs |-> [r |-> RefA1], v |-> <<"x">>],
    [attrs |-> [r |-> RefC45, t |-> "s"], v |-> <<"7", "y">>],
    [attrs |-> [r |-> RefB2, t |-> ""]],
    [attrs |-> [r |-> <<"Z">>, t |-> "b"], v |-> <<>>] }

\* Row nodes: without a cell sequence, with an empty one, with one or two cells.
RowNodes ==
  {[attrs |-> [r |-> "1"]]} \cup {[c |-> cs] : cs \in SeqsUpTo(CellNodes, 2)}

\* Dimension declarations: "P:Q" over a few endpoints (ordered, inverted,
\* malformed), a single reference and a three-part text.
DimEnds == {RefA1, RefB2, RefD4, <<"B">>}
DimRefs ==
  {p \o <<":">> \o q : p \in DimEnds, q \in DimEnds}
    \cup {RefA1, RefA1 \o <<":">> \o RefB2 \o <<":">> \o RefD4}

\* Sheets: null, without a worksheet, without a dimension, and with one
\* dimension element.  xml2js builds an element sequence only from elements
\* it met, so an empty dimension sequence is not an input.
Sheets ==
  {Null, [name |-> "s"], [worksheet |-> [sheetData |-> <<>>]]}
    \cup {[worksheet |-> [dimension |-> <<[attrs |-> [ref |-> d]]>>]] : d \in DimRefs}

\* Cells as getCells returns them; col -1 is the column of reference "a3".
CellAt(r, c) == [row |-> r, col |-> c, type |-> "", value |-> ""]
Cells == {CellAt(1, 1), CellAt(5, 3), CellAt(2, 2), CellAt(3, -1)}

\* Text nodes: a raw string, a preserved-whitespace node (its text under
\* `_`, possibly empty), a node without a text, a node whose text is no
\* string, a number.
Hello == <<"H", "e", "l", "l", "o", " ">>
World == <<" ", "W", "o", "r", "l", "d">>
JsStr(s) == [typeof |-> "string", str |-> s]
JsNum(n) == [typeof |-> "number", num |-> n]
Preserved(s) ==
  [typeof |-> "object", attrs |-> "preserve", underscore |-> JsStr(s)]
NoText == [typeof |-> "object", attrs |-> "preserve"]
TextNodes ==
  { JsStr(Hello), Preserved(World), Preserved(<<>>), JsStr(<<" ">>), NoText, JsNum(7),
    [typeof |-> "object", attrs |-> "preserve", underscore |-> JsNum(7)] }

\* Run nodes: without a text-node sequence, and with one of 0..2 nodes.
RunNodes ==
  {[rPr |-> "b"]}
    \cup {[rPr |-> "b", t |-> ts] :
            ts \in SeqsUpTo({JsStr(Hello), Preserved(World), NoText}, 2)}

(***************************************************************************)
(* The state machine: one run is one call of one method on chosen          *)
(* arguments and, for createEmptyCells, one write by the caller into the   *)
(* matrix it got.                                                          *)
(***************************************************************************)
Init ==
  /\ pc = "call"
  /\ ret = Pending
  /\ heap = <<>>
  /\ wr = <<>>
  /\ \/ op = "numOfColumn" /\ arg \in ColumnTexts \cup MixTexts
     \/ op = "getPosition" /\ arg \in RefTexts
     \/ op = "getCells" /\ arg \in SeqsUpTo(RowNodes, MaxRows)
     \/ op = "getSheetSize"
          /\ arg \in {[sheet |-> s, cells |-> cs] :
                        s \in Sheets, cs \in SeqsUpTo(Cells, MaxCells)}
     \/ op = "parseT" /\ arg \in SeqsUpTo(TextNodes, MaxNodes)
     \/ op = "parseR" /\ arg \in SeqsUpTo(RunNodes, MaxRuns)
     \/ op = "createEmptyCells"
          /\ arg \in {[rows |-> r, cols |-> c] : r \in 0..MaxDim, c \in 0..MaxDim}

Return(name, value) ==
  /\ pc = "call"
  /\ op = name
  /\ pc' = "done"
  /\ ret' = value
  /\ UNCHANGED <<op, arg, heap, wr>>

NumOfColumn  == Return("numOfColumn", numOfColumn(arg))
GetPosition  == Return("getPosition", getPosition(arg))
GetCells     == Return("getCells", getCells(arg))
GetSheetSize == Return("getSheetSize", getSheetSize(arg.sheet, arg.cells))
ParseT       == Return("parseT", parseT(arg))
ParseR       == Return("parseR", parseR(arg))

\* The returned matrix is the array of the row addresses; the rows are on
\* the heap.
CreateEmptyCells ==
  /\ pc = "call"
  /\ op = "createEmptyCells"
  /\ LET made == createEmptyCells(arg.rows, arg.cols)
     IN  ret' = made.arr /\ heap' = made.heap
  /\ pc' = "done"
  /\ UNCHANGED <<op, arg, wr>>

\* The caller's cells[ i ][ j ] = v (i, j 0-based): a store into the row
\* array that cells[ i ] refers to.
WriteCell ==
  /\ pc = "done"
  /\ op = "createEmptyCells"
  /\ \E i \in 0..(Len(ret) - 1) :
       \E j \in 0..(Len(heap[ret[i + 1]]) - 1) :
         /\ heap' = [heap EXCEPT ![ret[i + 1]][j + 1] = "x"]
         /\ wr' = <<i, j, "x">>
  /\ pc' = "written"
  /\ UNCHANGED <<op, arg, ret>>

Next ==
  \/ NumOfColumn
  \/ GetPosition
  \/ GetCells
  \/ GetSheetSize
  \/ ParseT
  \/ ParseR
  \/ CreateEmptyCells
  \/ WriteCell

Spec == Init /\ [][Next]_vars

\* The matrix the caller sees: entry (i, j) is read through row i's address.
Matrix == [i \in 1..Len(ret) |-> heap[ret[i]]]

(***************************************************************************)
(* What the properties are stated with.  These definitions are written     *)
(* from the documented meaning of the inputs, not from the code.           *)
(***************************************************************************)
Done(name) == pc = "done" /\ op = name

SetMin(S) == CHOOSE x \in S : \A y \in S : x <= y
SetMax(S) == CHOOSE x \in S : \A y \in S : y <= x

Front(s) == SubSeq(s, 1, Len(s) - 1)
Last(s)  == s[Len(s)]

\* The rank of a letter: A = 1 .. Z = 26.
Ord(c) == CHOOSE k \in 1..Len(Alphabet) : Alphabet[k] = c

\* The positional base-26 value of a text whose letters count as their
\* rank and whose other characters count as `other`.
RECURSIVE PosValue(_, _)
PosValue(s, other) ==
  IF s = <<>> THEN 0
  ELSE 26 * PosValue(Front(s), other)
         + (IF Last(s) \in Upper THEN Ord(Last(s)) ELSE other)

\* A text without its leading and trailing spaces.
Strip(s) ==
  LET inked == {k \in 1..Len(s) : s[k] # " "}
  IN  IF inked = {} THEN <<>> ELSE SubSeq(s, SetMin(inked), SetMax(inked))

\* s comes before t when it is shorter, or as long and alphabetically first.
Before(s, t) ==
  \/ Len(s) < Len(t)
  \/ /\ Len(s) = Len(t)
     /\ \E k \in 1..Len(s) :
          /\ \A m \in 1..(k - 1) : s[m] = t[m]
          /\ Ord(s[k]) < Ord(t[k])

\* The text that comes right after s in that order: "A" after "", "B" after
\* "A", "AA" after "Z", "BA" after "AZ".
RECURSIVE Succ(_)
Succ(s) ==
  IF s = <<>> THEN <<"A">>
  ELSE IF Last(s) = "Z" THEN
    (IF \A k \in 1..Len(s) : s[k] = "Z"
     THEN [k \in 1..(Len(s) + 1) |-> "A"]
     ELSE Append(Succ(Front(s)), "A"))
  ELSE Append(Front(s), Alphabet[Ord(Last(s)) + 1])

Landmarks == {<<"A">>, <<"Z">>, <<"A", "A">>, <<"A", "Z">>, <<"B", "A">>, <<"Z", "Z">>}

\* C1: for every text over A-Z (the empty one included) numOfColumn returns
\* the bijective base-26 value, A = 1 .. Z = 26, the empty text giving 0;
\* "A" = 1, "Z" = 26, "AA" = 27, "AZ" = 52, "BA" = 53; and the value grows
\* strictly along the order by length, then alphabet: it is below the value
\* of the next text and ordered like the text against each landmark.
C1_NumOfColumnBijective ==
  (Done("numOfColumn") /\ \A k \in 1..Len(arg) : arg[k] \in Upper) =>
    /\ ret = PosValue(arg, 0)
    /\ (arg = <<>> => ret = 0)
    /\ (arg = <<"A">> => ret = 1)
    /\ (arg = <<"Z">> => ret = 26)
    /\ (arg = <<"A", "A">> => ret = 27)
    /\ (arg = <<"A", "Z">> => ret = 52)
    /\ (arg = <<"B", "A">> => ret = 53)
    /\ ret < numOfColumn(Succ(arg))
    /\ \A t \in Landmarks :
         /\ Before(arg, t) => ret < numOfColumn(t)
         /\ Before(t, arg) => numOfColumn(t) < ret

C1_Witness == Done("numOfColumn") /\ arg = <<"B", "A">> /\ ret = 53

LetterCount(s) ==
  SetMax({k \in 0..Len(s) : \A m \in 1..k : s[m] \in Upper})

LetterPart(s) == SubSeq(s, 1, LetterCount(s))
DigitPart(s)  == SubSeq(s, LetterCount(s) + 1, Len(s))

WellFormed(s) ==
  /\ LetterPart(s) # <<>>
  /\ DigitPart(s) # <<>>
  /\ \A k \in 1..Len(DigitPart(s)) : DigitPart(s)[k] \in Digits

\* The base-10 value of a text of digits.
RECURSIVE DecValue(_)
DecValue(ds) ==
  IF ds = <<>> THEN 0
  ELSE 10 * DecValue(Front(ds)) + (CHOOSE d \in 0..9 : DigitChars[d + 1] = Last(ds))

\* C3 as claimed: for every reference text that is not a non-empty letter
\* part followed by a digit part ("", "ABC", "123", "1A") getPosition
\* returns exactly {row: 0, col: 0}.
C3_MalformedGivesZero ==
  (Done("getPosition") /\ ~WellFormed(arg)) => ret = [row |-> 0, col |-> 0]

\* C4: for every well-formed reference getPosition returns the base-10
\* value of the digit part as row and numOfColumn of the letter part as col,
\* which is the letters' bijective base-26 value; "A1" gives {1, 1} and
\* "C45" gives {45, 3}.
C4_WellFormedPosition ==
  (Done("getPosition") /\ WellFormed(arg)) =>
    /\ ret = [row |-> DecValue(DigitPart(arg)), col |-> numOfColumn(LetterPart(arg))]
    /\ ret.col = PosValue(LetterPart(arg), 0)
    /\ (arg = RefA1 => ret = [row |-> 1, col |-> 1])
    /\ (arg = RefC45 => ret = [row |-> 45, col |-> 3])

C4_Witness ==
  Done("getPosition") /\ arg = <<"A", "Z", "0", "5">> /\ ret = [row |-> 5, col |-> 52]

\* The cell nodes of a sequence of row nodes, in document order.
RECURSIVE NodesOf(_)
NodesOf(rows) ==
  IF rows = <<>> THEN <<>>
  ELSE NodesOf(Front(rows)) \o (IF "c" \in DOMAIN Last(rows) THEN Last(rows).c ELSE <<>>)

\* The Cell of a cell node.
CellOf(node) ==
  [row   |-> getPosition(node.attrs.r).row,
   col   |-> getPosition(node.attrs.r).col,
   type  |-> IF "t" \in DOMAIN node.attrs THEN node.attrs.t ELSE "",
   value |-> IF "v" \in DOMAIN node /\ node.v # <<>> THEN Head(node.v) ELSE ""]

\* C5: for every sequence of row nodes getCells returns exactly one Cell per
\* cell node, in document order (rows in order, cells in order within a
\* row); a row without a cell sequence or with an empty one adds nothing;
\* each Cell has the position of its reference, its type attribute or "",
\* and its first value node's text or "".  The rows [{c: [A1 with value
\* "x"]}, {c: []}] give the one Cell {row: 1, col: 1, type: "", value: "x"}.
C5_OneCellPerNodeInOrder ==
  Done("getCells") =>
    /\ Len(ret) = Len(NodesOf(arg))
    /\ \A k \in 1..Len(ret) : ret[k] = CellOf(NodesOf(arg)[k])
    /\ (arg = <<[c |-> <<[attrs |-> [r |-> RefA1], v |-> <<"x">>]>>], [c |-> <<>>]>> =>
          ret = <<[row |-> 1, col |-> 1, type |-> "", value |-> "x"]>>)

C5_Witness ==
  /\ Done("getCells")
  /\ arg = << [c |-> << [attrs |-> [r |-> RefC45, t |-> "s"], v |-> <<"7", "y">>],
                        [attrs |-> [r |-> RefB2, t |-> ""]] >>],
              [c |-> << [attrs |-> [r |-> RefA1], v |-> <<"x">>] >>] >>
  /\ ret = << [row |-> 45, col |-> 3, type |-> "s", value |-> "7"],
              [row |-> 2, col |-> 2, type |-> "", value |-> ""],
              [row |-> 1, col |-> 1, type |-> "", value |-> "x"] >>

\* The sheet carries no dimension declaration.
NoDeclaration(sheet) ==
  \/ "null" \in DOMAIN sheet
  \/ "worksheet" \notin DOMAIN sheet
  \/ "dimension" \notin DOMAIN sheet.worksheet

DeclaredRef(sheet) == sheet.worksheet.dimension[1].attrs.ref

\* The places of the colons of a declaration.
Colons(ref) == {k \in 1..Len(ref) : ref[k] = ":"}

\* The sheet declares "P:Q": a declaration with exactly one colon.
DeclaresBox(sheet) ==
  ~NoDeclaration(sheet) /\ Cardinality(Colons(DeclaredRef(sheet))) = 1

BoxP(sheet) ==
  LET ref == DeclaredRef(sheet) IN SubSeq(ref, 1, SetMin(Colons(ref)) - 1)

BoxQ(sheet) ==
  LET ref == DeclaredRef(sheet) IN SubSeq(ref, SetMin(Colons(ref)) + 1, Len(ref))

RowsOf(cells) == {cells[k].row : k \in 1..Len(cells)}
ColsOf(cells) == {cells[k].col : k \in 1..Len(cells)}

\* C6: when the sheet declares "P:Q", getSheetSize returns rows from P's row
\* to Q's row and columns from P's column to Q's column, P and Q parsed by
\* getPosition, whatever the cells are (none, or cells outside the box);
\* "B2:D4" gives {row: {min: 2, max: 4}, col: {min: 2, max: 4}}.
C6_DeclaredBoxWins ==
  (Done("getSheetSize") /\ DeclaresBox(arg.sheet)) =>
    /\ ret = [row |-> [min |-> getPosition(BoxP(arg.sheet)).row,
                       max |-> getPosition(BoxQ(arg.sheet)).row],
              col |-> [min |-> getPosition(BoxP(arg.sheet)).col,
                       max |-> getPosition(BoxQ(arg.sheet)).col]]
    /\ (DeclaredRef(arg.sheet) = RefB2 \o <<":">> \o RefD4 =>
          ret = [row |-> [min |-> 2, max |-> 4], col |-> [min |-> 2, max |-> 4]])

C6_Witness ==
  /\ Done("getSheetSize")
  /\ DeclaresBox(arg.sheet)
  /\ DeclaredRef(arg.sheet) = RefB2 \o <<":">> \o RefD4
  /\ arg.cells = <<CellAt(5, 3), CellAt(1, 1)>>
  /\ ret = [row |-> [min |-> 2, max |-> 4], col |-> [min |-> 2, max |-> 4]]

\* C7: when the sheet carries no declaration and there are cells,
\* getSheetSize returns the smallest and the largest row and the smallest
\* and the largest column over all cells, in whatever order the cells come;
\* cells at (1,1), (5,3), (2,2) give {row: {min: 1, max: 5}, col: {min: 1, max: 3}}.
C7_FallbackIsMinMax ==
  (Done("getSheetSize") /\ NoDeclaration(arg.sheet) /\ arg.cells # <<>>) =>
    /\ ret = [row |-> [min |-> SetMin(RowsOf(arg.cells)), max |-> SetMax(RowsOf(arg.cells))],
              col |-> [min |-> SetMin(ColsOf(arg.cells)), max |-> SetMax(ColsOf(arg.cells))]]
    /\ (arg.cells = <<CellAt(1, 1), CellAt(5, 3), CellAt(2, 2)>> =>
          ret = [row |-> [min |-> 1, max |-> 5], col |-> [min |-> 1, max |-> 3]])

C7_Witness ==
  /\ Done("getSheetSize")
  /\ NoDeclaration(arg.sheet)
  /\ arg.cells = <<CellAt(5, 3), CellAt(3, -1), CellAt(1, 1)>>
  /\ ret = [row |-> [min |-> 1, max |-> 5], col |-> [min |-> -1, max |-> 3]]

\* C8 as claimed: whenever there is at least one cell, the size getSheetSize
\* returns has row.min <= row.max and col.min <= col.max, for every sheet
\* node, with or without a declaration.
C8_MinBelowMaxForEverySheet ==
  (Done("getSheetSize") /\ arg.cells # <<>>) =>
    (ret.row.min <= ret.row.max /\ ret.col.min <= ret.col.max)

\* C8 amended: whenever there is at least one cell and the sheet does not
\* declare "P:Q" (no declaration, a single reference, more than one colon),
\* row.min <= row.max and col.min <= col.max; when it declares "P:Q" the
\* size is the declared box, so min <= max holds on an axis exactly when P's
\* coordinate on it is at most Q's ("D4:B2" gives row {min: 4, max: 2}).
C8_MinBelowMaxUnlessDeclaredInverted ==
  (Done("getSheetSize") /\ arg.cells # <<>>) =>
    IF DeclaresBox(arg.sheet)
    THEN /\ (ret.row.min <= ret.row.max) <=>
              (getPosition(BoxP(arg.sheet)).row <= getPosition(BoxQ(arg.sheet)).row)
         /\ (ret.col.min <= ret.col.max) <=>
              (getPosition(BoxP(arg.sheet)).col <= getPosition(BoxQ(arg.sheet)).col)
         /\ (DeclaredRef(arg.sheet) = RefD4 \o <<":">> \o RefB2 =>
               ret.row = [min |-> 4, max |-> 2])
    ELSE ret.row.min <= ret.row.max /\ ret.col.min <= ret.col.max

C8_Witness ==
  /\ Done("getSheetSize")
  /\ ~NoDeclaration(arg.sheet)
  /\ DeclaredRef(arg.sheet) = RefA1
  /\ arg.cells = <<CellAt(5, 3), CellAt(1, 1)>>
  /\ ret = [row |-> [min |-> 1, max |-> 5], col |-> [min |-> 1, max |-> 3]]

\* The text a text node contributes: a raw string itself, a node with a
\* string under `_` that string, anything else nothing.
Payload(node) ==
  IF node.typeof = "string" THEN node.str
  ELSE IF /\ node.typeof = "object"
          /\ "underscore" \in DOMAIN node
          /\ node.underscore.typeof = "string"
  THEN node.underscore.str
  ELSE <<>>

RECURSIVE Flat(_)
Flat(nodes) == IF nodes = <<>> THEN <<>> ELSE Flat(Front(nodes)) \o Payload(Last(nodes))

RECURSIVE FlatRuns(_)
FlatRuns(runs) ==
  IF runs = <<>> THEN <<>>
  ELSE FlatRuns(Front(runs)) \o (IF "t" \in DOMAIN Last(runs) THEN Flat(Last(runs).t) ELSE <<>>)

HelloWorld == <<"H", "e", "l", "l", "o", " ", " ", "W", "o", "r", "l", "d">>

\* C9: parseT is the concatenation, in order and untrimmed, of every raw
\* string node and of the text of every preserved-whitespace node, other
\* nodes adding nothing; parseR is the concatenation, in order, of parseT of
\* every run that has a text-node sequence, other runs adding nothing; a
\* plain "Hello " followed by a preserved " World" is "Hello  World".
C9_FlattenConcatenates ==
  /\ Done("parseT") =>
       /\ ret = Flat(arg)
       /\ (arg = <<JsStr(Hello), Preserved(World)>> => ret = HelloWorld)
  /\ Done("parseR") =>
       /\ ret = FlatRuns(arg)
       /\ (arg = <<[rPr |-> "b", t |-> <<JsStr(Hello)>>],
                   [rPr |-> "b", t |-> <<Preserved(World)>>]>> => ret = HelloWorld)

C9_Witness ==
  /\ Done("parseR")
  /\ arg = <<[rPr |-> "b", t |-> <<JsStr(Hello)>>], [rPr |-> "b", t |-> <<Preserved(World)>>]>>
  /\ ret = HelloWorld

\* C10: createEmptyCells(rows, cols) returns rows rows of cols empty strings
\* each, and a value written into entry (i, j) of the matrix is found at
\* (i, j) and nowhere else: every other entry of every row is still "".
C10_EmptyMatrixRowsNotShared ==
  (op = "createEmptyCells" /\ pc # "call") =>
    /\ Len(Matrix) = arg.rows
    /\ \A i \in 1..arg.rows :
         /\ Len(Matrix[i]) = arg.cols
         /\ \A j \in 1..arg.cols :
              Matrix[i][j] =
                IF pc = "written" /\ i = wr[1] + 1 /\ j = wr[2] + 1 THEN wr[3] ELSE ""

C10_Witness ==
  /\ op = "createEmptyCells"
  /\ pc = "written"
  /\ arg = [rows |-> 2, cols |-> 3]
  /\ wr = <<0, 1, "x">>
  /\ Matrix = <<(<<"", "x", "">>), (<<"", "", "">>)>>

====
